---------------------------- MODULE Spec2Model ----------------------------
(***************************************************************************)
(* A model of docs/src/main/scripts/update-latest-and-redirects.py: the    *)
(* canonical-link stamping of a documentation tree, the cross-version URL  *)
(* construction and the synthesis of redirect pages.                       *)
(*                                                                         *)
(* Text.  A Python str is a sequence of characters.  Paths, file names and *)
(* URLs are modelled character by character (one-character strings).  The  *)
(* content of an HTML file is a sequence of "content characters", records  *)
(* [k, u], each standing for one fixed chunk of markup:                    *)
(*    k = "L"   <link rel="canonical"        k = "h"   href="u" attribute  *)
(*    k = "M"   <meta                        k = "r"   http-equiv="refresh" *)
(*    k = "c"   content="3; url=u"           k = ">"   the closing >       *)
(*    k = "H"   </head   (followed by ">")   k = "t"   any other element   *)
(*    k = "x"   text                         k = " "   a blank             *)
(*    k = "\n"  the line terminator                                        *)
(* The regular expressions of the script are translated on this alphabet.  *)
(* Every chunk counts for one character, so a column is a number of chunks *)
(* and not a number of bytes; where the script misplaces a tag, the model  *)
(* misplaces it too, at the offset the chunk widths give.                  *)
(***************************************************************************)
EXTENDS Integers, Sequences, FiniteSets, TLC

VARIABLES
    fs,            \* the files of the documentation tree: path -> content
    dirs,          \* the directories of the documentation tree
    args,          \* the parsed command line (absolute_path, product)
    pc,            \* the position of main()
    todo,          \* the files os.walk has still to yield to the running walker
    calls,         \* the per-document calls the walkers have made (history)
    loc,           \* the locals of the last per-document call when it returned
    runs,          \* how many stamping passes were made over the tree
    snap           \* the file system as it was before / after the first pass

vars == <<fs, dirs, args, pc, todo, calls, loc, runs, snap>>

(***************************************************************************)
(* Bounds of the model.                                                    *)
(***************************************************************************)
\* The most markup tokens a document of the stamping model holds.
MaxDocTok == 4

\* The most tags a previous-version document of the redirect model holds.
MaxRedirTok == 3

\* The deepest file, below its version directory, of the URL model.
MaxDepth == 3

(***************************************************************************)
(* Python values.                                                          *)
(***************************************************************************)
\* Optional[int]: None is the empty set, an int n is {n}.
None == {}

Some(n) == {n}

Get(o) == CHOOSE n \in o : TRUE

Max(a, b) == IF a >= b THEN a ELSE b

Min(a, b) == IF a <= b THEN a ELSE b

\* The position a slice bound c denotes in a sequence of length n (s[:c], s[c:]).
PyBound(n, c) == IF c < 0 THEN Max(n + c, 0) ELSE Min(c, n)

\* s[:c]
PyPrefix(s, c) == SubSeq(s, 1, PyBound(Len(s), c))

\* s[c:]
PySuffix(s, c) == SubSeq(s, PyBound(Len(s), c) + 1, Len(s))

RECURSIVE Flatten(_)
\* "".join(ss)
Flatten(ss) == IF ss = <<>> THEN <<>> ELSE Head(ss) \o Flatten(Tail(ss))

\* s.endswith(suffix)
EndsWith(s, suffix) ==
    /\ Len(s) >= Len(suffix)
    /\ SubSeq(s, Len(s) - Len(suffix) + 1, Len(s)) = suffix

\* sub in s
Contains(s, sub) ==
    \E i \in 0..(Len(s) - Len(sub)) : SubSeq(s, i + 1, i + Len(sub)) = sub

(***************************************************************************)
(* Content characters.                                                     *)
(***************************************************************************)
Ch(k) == [k |-> k, u |-> <<>>]

Attr(k, url) == [k |-> k, u |-> url]

NL == Ch("\n")

IsWs(c) == c.k \in {" ", "\n"}

\* f'<link rel="canonical" href="{canonical_url}">'
CanonicalTag(url) == <<Ch("L"), Attr("h", url), Ch(">")>>

\* file.readlines(): the text cut after every line terminator.
RECURSIVE ReadLinesFrom(_, _)
ReadLinesFrom(text, acc) ==
    IF text = <<>> THEN (IF acc = <<>> THEN <<>> ELSE <<acc>>)
    ELSE IF Head(text) = NL
         THEN <<Append(acc, NL)>> \o ReadLinesFrom(Tail(text), <<>>)
         ELSE ReadLinesFrom(Tail(text), Append(acc, Head(text)))

ReadLines(text) == ReadLinesFrom(text, <<>>)

\* file.writelines(lines)
WriteLines(lines) == Flatten(lines)


(***************************************************************************)
(* The regular expressions of create_canonical_tag.                        *)
(***************************************************************************)
\* re.match in place of re.search: the meta tag has to open the line.
IsRedirectLineAnchored(line) ==
    \E j \in 2..Len(line) :
        /\ line[1].k = "M"
        /\ line[j].k = "r"
        /\ \A m \in 2..(j - 1) : line[m].k # "\n"

\* re.search("meta.*http-equiv=[\"']refresh[\"']", line)
IsRedirectLine(line) ==
    \E i \in 1..Len(line) : \E j \in (i + 1)..Len(line) :
        /\ line[i].k = "M"
        /\ line[j].k = "r"
        /\ \A m \in (i + 1)..(j - 1) : line[m].k # "\n"

\* The last position of the run of white space that starts after position j.
RECURSIVE WsEnd(_, _)
WsEnd(line, j) ==
    IF j < Len(line) /\ IsWs(line[j + 1]) THEN WsEnd(line, j + 1) ELSE j

\* A match of "<link rel=[\"']canonical[\"'].*?>\\s*" that starts at position i:
\* its last position, or 0 when there is none.  ".*?" stops at the first ">",
\* and "." does not match the line terminator.
CanonMatchEnd(line, i) ==
    IF line[i].k # "L" THEN 0
    ELSE LET closers == {j \in (i + 1)..Len(line) :
                            /\ line[j].k = ">"
                            /\ \A m \in (i + 1)..(j - 1) : line[m].k # "\n"}
         IN  IF closers = {} THEN 0
             ELSE WsEnd(line, CHOOSE j \in closers : \A j2 \in closers : j <= j2)

\* re.findall and re.sub of that pattern over the line, read from position i:
\* the line without the matches, and the number of characters matched.
RECURSIVE SubCanonFrom(_, _)
SubCanonStep(line, i, e) ==
    IF e > 0
    THEN [SubCanonFrom(line, e + 1) EXCEPT !.removed = @ + (e - i + 1)]
    ELSE [SubCanonFrom(line, i + 1) EXCEPT !.out = <<line[i]>> \o @]

SubCanonFrom(line, i) ==
    IF i > Len(line) THEN [out |-> <<>>, removed |-> 0]
    ELSE SubCanonStep(line, i, CanonMatchEnd(line, i))

SubCanon(line) == SubCanonFrom(line, 1)

\* re.match("^\\s*<link rel=[\"']canonical[\"'].*?>\n$", line)
IsCanonLine(line) ==
    \E k \in 1..Len(line) :
        /\ \A m \in 1..(k - 1) : IsWs(line[m])
        /\ line[k].k = "L"
        /\ Len(line) - 1 > k
        /\ line[Len(line)].k = "\n"
        /\ line[Len(line) - 1].k = ">"
        /\ \A m \in (k + 1)..(Len(line) - 2) : line[m].k # "\n"

\* re.match("^\\s*</head>\n$", line)
IsHeadLine(line) ==
    /\ Len(line) >= 3
    /\ \A m \in 1..(Len(line) - 3) : IsWs(line[m])
    /\ line[Len(line) - 2].k = "H"
    /\ line[Len(line) - 1].k = ">"
    /\ line[Len(line)].k = "\n"

\* re.search("</head>\\s*", line): the start(0) of the match (counted from 0),
\* or None.
HeadSearch(line) ==
    LET starts == {i \in 1..(Len(line) - 1) :
                       line[i].k = "H" /\ line[i + 1].k = ">"}
    IN  IF starts = {} THEN None
        ELSE Some((CHOOSE i \in starts : \A i2 \in starts : i <= i2) - 1)

(***************************************************************************)
(* create_canonical_tag, on the text of the file.                          *)
(***************************************************************************)
\* HTMLTagMatch.set_match
SetMatch(st, line, col) ==
    IF st.line = None THEN [st EXCEPT !.line = Some(line), !.col = Some(col)]
    ELSE st

\* The canonical-link branch of an iteration (lines 174-178): the scan state
\* and char_offset.
StripPart(st, idx, sub) ==
    IF sub.removed > 0
    THEN [st |-> [st EXCEPT !.c_file[idx + 1] = sub.out], char_offset |-> sub.removed]
    ELSE [st |-> st, char_offset |-> 0]

CanonPart(st, idx, line) ==
    IF IsCanonLine(line)
    THEN [st |-> [st EXCEPT !.existing_canon_tags = Append(@, idx)], char_offset |-> 0]
    ELSE StripPart(st, idx, SubCanon(line))

\* The head-closing branch of an iteration (lines 180-184).
HeadSearchPart(cp, idx, found) ==
    IF found # None THEN SetMatch(cp.st, idx, Get(found) - cp.char_offset)
    ELSE cp.st

HeadPart(cp, idx, line) ==
    IF IsHeadLine(line) /\ cp.st.line = None
    THEN [cp.st EXCEPT !.line = Some(idx)]
    ELSE HeadSearchPart(cp, idx, HeadSearch(line))

\* One iteration of the scanning loop, for the line at index idx (from 0).
ScanLine(st, idx) ==
    HeadPart(CanonPart(st, idx, st.c_file[idx + 1]), idx, st.c_file[idx + 1])

\* The scanning loop from index idx on; it returns at the first redirect line.
RECURSIVE ScanFrom(_, _)
ScanFrom(st, idx) ==
    IF idx >= Len(st.c_file) THEN st
    ELSE IF IsRedirectLine(st.c_file[idx + 1])
         THEN [st EXCEPT !.redirect = TRUE]
         ELSE ScanFrom(ScanLine(st, idx), idx + 1)

Scan(c_file) ==
    ScanFrom([c_file |-> c_file, existing_canon_tags |-> <<>>,
              line |-> None, col |-> None, redirect |-> FALSE], 0)

\* del c_file[idx]
DelAt(s, idx) == SubSeq(s, 1, idx) \o SubSeq(s, idx + 2, Len(s))

\* The deleting loop over sorted(existing_canon_tags, reverse=True), the flagged
\* indices being appended in ascending order: tags[k], tags[k-1], ..., tags[1].
RECURSIVE DeleteFlagged(_, _, _, _)
DeleteFlagged(c_file, head_line, tags, k) ==
    IF k = 0 THEN [c_file |-> c_file, line |-> Some(head_line)]
    ELSE DeleteFlagged(DelAt(c_file, tags[k]),
                       IF tags[k] < head_line THEN head_line - 1 ELSE head_line,
                       tags, k - 1)

\* c_file.insert(i, x), for i >= 0
InsertAt(s, i, x) ==
    LET p == Min(i, Len(s)) IN SubSeq(s, 1, p) \o <<x>> \o SubSeq(s, p + 1, Len(s))

\* What a call reports: how it ended (status), what the file holds afterwards
\* (text), and its locals.
Outcome(status, text, before, tag, st, d, out) ==
    [status |-> status, text |-> text, before |-> before, tag |-> tag,
     flagged |-> st.existing_canon_tags, scan_line |-> st.line, col |-> st.col,
     scanned |-> st.c_file, line |-> d.line, deleted |-> d.c_file, out_line |-> out]

\* c_file[line][:col] + canonical_tag + " " + c_file[line][col:]
Splice(old, col, canonical_tag) ==
    PyPrefix(old, col) \o canonical_tag \o <<Ch(" ")>> \o PySuffix(old, col)

\* Lines 197-208: the insertion and the write, d being the lines and the
\* head-closing line index left by the deleting loop.
InsertTag(text, canonical_tag, st, d) ==
    IF st.col # None
    THEN IF Get(d.line) >= Len(d.c_file)
         THEN Outcome("IndexError", text, text, canonical_tag, st, d, <<>>)
         ELSE Outcome("written",
                  WriteLines([d.c_file EXCEPT ![Get(d.line) + 1] =
                                  Splice(@, Get(st.col), canonical_tag)]),
                  text, canonical_tag, st, d,
                  Splice(d.c_file[Get(d.line) + 1], Get(st.col), canonical_tag))
    ELSE Outcome("written",
             WriteLines(InsertAt(d.c_file, Get(d.line), canonical_tag \o <<NL>>)),
             text, canonical_tag, st, d, canonical_tag \o <<NL>>)

\* Lines 186-195, st being the state the scanning loop ended in.
AfterScan(text, canonical_tag, st) ==
    IF st.redirect
    THEN Outcome("redirect", text, text, canonical_tag, st,
                 [line |-> None, c_file |-> <<>>], <<>>)
    ELSE IF st.line = None
         THEN Outcome("nohead", text, text, canonical_tag, st,
                      [line |-> None, c_file |-> <<>>], <<>>)
         ELSE InsertTag(text, canonical_tag, st,
                        DeleteFlagged(st.c_file, Get(st.line), st.existing_canon_tags,
                                      Len(st.existing_canon_tags)))

\* The call on a file whose text is `text`, canonical_tag being the rendered tag.
create_canonical_tag(text, canonical_tag) ==
    AfterScan(text, canonical_tag, Scan(ReadLines(text)))

(***************************************************************************)
(* Paths and URLs.  A path is the sequence of its parts, each part a       *)
(* sequence of characters; a URL is a sequence of characters.              *)
(***************************************************************************)
\* os.sep, on the POSIX hosts the script is run on
Sep == "/"

DotDot == <<".", ".">>

\* str(path) of a relative path: its parts joined by the separator
RECURSIVE PathStr(_)
PathStr(parts) ==
    IF parts = <<>> THEN <<>>
    ELSE IF Len(parts) = 1 THEN parts[1]
         ELSE parts[1] \o <<Sep>> \o PathStr(Tail(parts))

\* PurePath(s) of a relative path string: the parts between separators,
\* empty parts and "." parts dropped
RECURSIVE PathParts(_, _)
PathParts(s, acc) ==
    LET done == IF acc = <<>> \/ acc = <<".">> THEN <<>> ELSE <<acc>>
    IN  IF s = <<>> THEN done
        ELSE IF Head(s) = Sep THEN done \o PathParts(Tail(s), <<>>)
             ELSE PathParts(Tail(s), Append(acc, Head(s)))

PurePath(s) == PathParts(s, <<>>)

\* path.relative_to(other), other being an ancestor of path
RelativeTo(path, other) == SubSeq(path, Len(other) + 1, Len(path))

\* The end of the run of "[^/]+" that starts at position i of s.
RECURSIVE RunEnd(_, _)
RunEnd(s, i) == IF i < Len(s) /\ s[i + 1] # "/" THEN RunEnd(s, i + 1) ELSE i

\* rel_path_replace: matched.groups() is <<group 1, group 2>>, a group that
\* did not take part being None.
RECURSIVE rel_path_replace(_)
rel_path_replace(groups) ==
    IF groups = <<>> THEN <<>>
    ELSE LET m == Head(groups)
         IN  (IF m = None THEN <<>>
              ELSE IF \E i \in 1..Len(Get(m)) : Get(m)[i] = Sep
                   THEN <<Sep>> ELSE DotDot)
             \o rel_path_replace(Tail(groups))

\* re.sub(REL_PATH_PATTERN, rel_path_replace, s) read from position i, the
\* pattern being "(/)?([^/]+)".
RECURSIVE ReSubRelPath(_, _)
ReSubRelPath(s, i) ==
    IF i > Len(s) THEN <<>>
    ELSE IF s[i] = "/" /\ i < Len(s) /\ s[i + 1] # "/"
         THEN LET e == RunEnd(s, i + 1)
              IN  rel_path_replace(<<Some(<<"/">>), Some(SubSeq(s, i + 1, e))>>)
                    \o ReSubRelPath(s, e + 1)
         ELSE IF s[i] # "/"
              THEN LET e == RunEnd(s, i)
                   IN  rel_path_replace(<<None, Some(SubSeq(s, i, e))>>)
                         \o ReSubRelPath(s, e + 1)
              ELSE <<s[i]>> \o ReSubRelPath(s, i + 1)

\* str.replace(os.sep, "/")
ReplaceSep(s) == [i \in 1..Len(s) |-> IF s[i] = Sep THEN "/" ELSE s[i]]

\* generate_canonical_url: <<redirect_file, url>>
generate_canonical_url(base_docs_path, canon_file, canon_dir_path, current_dirname) ==
    LET redirect_file == base_docs_path \o <<current_dirname>>
                           \o RelativeTo(canon_file, canon_dir_path)
        ascend == PurePath(ReSubRelPath(
                      PathStr(RelativeTo(redirect_file, base_docs_path)), 1))
        redirect_url == ascend \o RelativeTo(canon_file, base_docs_path)
    IN  <<redirect_file, ReplaceSep(PathStr(redirect_url))>>

\* "/" + str(file.relative_to(base_docs_path)).replace(os.sep, "/")
AbsoluteUrl(base_docs_path, file) ==
    <<"/">> \o ReplaceSep(PathStr(RelativeTo(file, base_docs_path)))

(***************************************************************************)
(* BeautifulSoup(text, "html.parser"): a tag runs from its opening chunk   *)
(* to the next ">"; its attributes are the characters in between.          *)
(***************************************************************************)
TagClose(text, i) ==
    LET closers == {j \in (i + 1)..Len(text) : text[j].k = ">"}
    IN  IF closers = {} THEN Len(text) + 1
        ELSE CHOOSE j \in closers : \A j2 \in closers : j <= j2

\* tag[name]: the value of the attribute, or None (a KeyError)
TagAttr(text, i, name) ==
    LET at == {j \in (i + 1)..(TagClose(text, i) - 1) : text[j].k = name}
    IN  IF at = {} THEN None
        ELSE Some(text[CHOOSE j \in at : \A j2 \in at : j <= j2].u)

\* The first element of a set of positions, or None.
First(ps) == IF ps = {} THEN None ELSE Some(CHOOSE i \in ps : \A i2 \in ps : i <= i2)

\* prev_file.find("meta", attrs={"http-equiv": "refresh"})
FindMetaRefresh(text) ==
    First({i \in 1..Len(text) :
              /\ text[i].k = "M"
              /\ \E j \in (i + 1)..(TagClose(text, i) - 1) : text[j].k = "r"})

\* The last canonical link of the document in place of the first one.
FindLastCanonLink(text) ==
    LET ps == {i \in 1..Len(text) : text[i].k = "L"}
    IN  IF ps = {} THEN None ELSE Some(CHOOSE i \in ps : \A i2 \in ps : i >= i2)

\* prev_file.find("link", rel="canonical")
FindCanonLink(text) == First({i \in 1..Len(text) : text[i].k = "L"})

\* 'content="3; url=' + url + '"': the value of the attribute
RefreshContent(url) == <<"3", ";", " ", "u", "r", "l", "=">> \o url

(***************************************************************************)
(* REMOVED_REDIRECT_TEMPLATE and its rendering.                            *)
(***************************************************************************)
\* redirect_url.join(REMOVED_REDIRECT_TEMPLATE[0:3])
RedirectHead(redirect_url) ==
    <<Ch("t"), Ch(">"), NL,                                  \* <!DOCTYPE html>
      Ch("t"), Ch(">"), NL,                                  \* <html lang="en">
      Ch(" "), Ch("t"), Ch(">"), NL,                         \* <head>
      Ch(" "), Ch("M"), Ch("o"), Ch(">"), NL,                \* <meta charset>
      Ch(" "), Ch("M"), Ch("r"),
      Attr("c", RefreshContent(redirect_url)), Ch(">"), NL,
      Ch(" "), Ch("L"), Attr("h", redirect_url), Ch(" "), Ch("/"), Ch(">"), NL,
      Ch(" "), Ch("H"), Ch(">"), NL,                         \* </head>
      Ch(" "), Ch("t"), Ch(">"), NL,                         \* <body>
      Ch(" "), Ch("t"), Ch(">"), Ch("x")>>                   \* <p>The page ... (

\* redirect_url.join(REMOVED_REDIRECT_TEMPLATE[3:6])
RedirectTail(redirect_url) ==
    <<Ch("x"), Ch("t"), Ch(">"), NL,                         \* ). You ...</p>
      Ch(" "), Ch("t"), Ch(">"), Ch("x"),                    \* <p>If the page ...
      Ch("A"), Attr("h", redirect_url), Ch(">"),             \* <a href="url">
      Attr("x", redirect_url),
      Ch("t"), Ch(">"), Ch("t"), Ch(">"), NL,                \* </a></p>
      Ch(" "), Ch("t"), Ch(">"), NL,                         \* </body>
      Ch("t"), Ch(">")>>                                     \* </html>

\* f"{product_name} {current_version}" or str(current_version)
VersionText(product_name, current_version) ==
    IF product_name # None /\ Get(product_name) # <<>>
    THEN Get(product_name) \o <<" ">> \o current_version
    ELSE current_version

\* Path(p).is_dir() in place of Path(p).exists(): a file does not count.
ExistsDirOnly(files, directories, p) == p \in directories

\* Path(p).exists()
Exists(files, directories, p) == p \in DOMAIN files \/ p \in directories

\* os.makedirs(p, exist_ok=True): p and the directories above it
Ancestors(p) == {SubSeq(p, 1, n) : n \in 1..Len(p)}

\* open(p, "w").write(text)
WriteFile(files, p, text) ==
    [q \in DOMAIN files \cup {p} |-> IF q = p THEN text ELSE files[q]]

(***************************************************************************)
(* redirect_removed_file, on the file system.                              *)
(***************************************************************************)
\* The parameters after the file system are those of the function, in its order.
redirect_removed_file(files, directories, base_docs_path, previous_docs_file, current_dirname, previous_dirname, current_version, use_abs_path, product_name) ==
    LET gen  == generate_canonical_url(base_docs_path, previous_docs_file,
                    base_docs_path \o <<previous_dirname>>, current_dirname)
        redirect_file == gen[1]
        computed == IF use_abs_path
                    THEN AbsoluteUrl(base_docs_path, previous_docs_file)
                    ELSE gen[2]
        existed == Exists(files, directories, redirect_file)
        out  == [fn |-> "redirect_removed_file", file |-> previous_docs_file,
                 redirect_file |-> redirect_file, computed |-> computed,
                 existed |-> existed, status |-> "skipped",
                 redirect_url |-> computed,
                 fs_before |-> files, dirs_before |-> directories,
                 fs |-> files, dirs |-> directories]
    IN  IF existed THEN out
        ELSE
          LET prev_file == files[previous_docs_file]
              static_redirect == FindMetaRefresh(prev_file)
              canon_link == FindCanonLink(prev_file)
              href    == IF canon_link = None THEN None
                         ELSE TagAttr(prev_file, Get(canon_link), "h")
              content == IF static_redirect = None THEN None
                         ELSE TagAttr(prev_file, Get(static_redirect), "c")
          IN  IF static_redirect # None /\ canon_link # None
                 /\ (href = None \/ content = None)
              THEN [out EXCEPT !.status = "KeyError"]
              ELSE
                LET redirect_url ==
                        IF /\ static_redirect # None
                           /\ canon_link # None
                           /\ Contains(Get(content), Get(href))
                        THEN Get(href) ELSE computed
                    text == RedirectHead(redirect_url)
                              \o <<Attr("x", VersionText(product_name, current_version))>>
                              \o RedirectTail(redirect_url)
                IN  [out EXCEPT !.status = "written",
                                !.redirect_url = redirect_url,
                                !.dirs = directories
                                           \cup Ancestors(SubSeq(redirect_file, 1,
                                                       Len(redirect_file) - 1)),
                                !.fs = WriteFile(files, redirect_file, text)]

(***************************************************************************)
(* The documentation tree of the model.                                    *)
(***************************************************************************)
Base == <<<<"d", "o", "c", "s">>>>

Latest == <<"l", "a", "t", "e", "s", "t">>

\* args.previous_version and args.source_version
Previous == <<"2", "7">>

Current == <<"2", "8">>

AHtml == <<"a", ".", "h", "t", "m", "l">>

DHtml == <<"d", ".", "h", "t", "m", "l">>

BXhtml == <<"b", ".", "x", "h", "t", "m", "l">>

CHtml == <<"c", ".", "h", "t", "m", "l">>

Guide == <<"g">>

DotHtml == <<".", "h", "t", "m", "l">>

Html == <<"h", "t", "m", "l">>

\* The paths, below a version directory, a file of the model can have.
RelPaths == {<<AHtml>>, <<DHtml>>, <<BXhtml>>, <<Guide, CHtml>>}

\* The href of a canonical link a document carries before the run.
OldUrl == <<"/", "o">>

OtherUrl == <<"/", "o", "/", "n">>

\* The files os.walk(top) yields, and the constraint its top-down order puts on
\* them: the files of a directory come before the files of its subdirectories.
FilesUnder(files, top) ==
    {p \in DOMAIN files : Len(p) > Len(top) /\ SubSeq(p, 1, Len(top)) = top}

ParentOf(p) == SubSeq(p, 1, Len(p) - 1)

IsAncestorDir(d, e) == Len(d) < Len(e) /\ SubSeq(e, 1, Len(d)) = d

WalkNext(remaining) ==
    {p \in remaining :
        \A q \in remaining : ~IsAncestorDir(ParentOf(q), ParentOf(p))}

FileName(p) == p[Len(p)]

(***************************************************************************)
(* The documents of the model, written as sequences of markup tokens.      *)
(***************************************************************************)
Tok(t) ==
    CASE t = "C"  -> CanonicalTag(OldUrl)
      [] t = "H"  -> <<Ch("H"), Ch(">")>>
      [] t = "M"  -> <<Ch("M"), Ch("r"), Attr("c", RefreshContent(OldUrl)), Ch(">")>>
      [] t = "T"  -> <<Ch("t"), Ch(">")>>
      [] t = "X"  -> <<Ch("x")>>
      [] t = "S"  -> <<Ch(" ")>>
      [] t = "N"  -> <<NL>>
      [] t = "Ma" -> <<Ch("M"), Ch("r"), Attr("c", RefreshContent(OldUrl)), Ch(">")>>
      [] t = "Mb" -> <<Ch("M"), Ch("r"), Attr("c", RefreshContent(OtherUrl)), Ch(">")>>
      [] t = "M0" -> <<Ch("M"), Ch("r"), Ch(">")>>
      [] t = "Mc" -> <<Ch("M"), Ch("o"), Ch(">")>>
      [] t = "La" -> CanonicalTag(OldUrl)
      [] t = "Lb" -> CanonicalTag(OtherUrl)
      [] t = "L0" -> <<Ch("L"), Ch(">")>>

Doc(ts) == Flatten([i \in 1..Len(ts) |-> Tok(ts[i])])

TokDocs(alphabet, n) ==
    {Doc(ts) : ts \in UNION {[1..k -> alphabet] : k \in 0..n}}

StampTokens == {"C", "H", "M", "T", "X", "S", "N"}

RedirTokens == {"Ma", "Mb", "M0", "Mc", "La", "Lb", "L0", "T"}

NormalDoc == Doc(<<"T", "N", "H", "N">>)

HeadlessDoc == Doc(<<"T", "C", "N">>)

RedirectDoc == Doc(<<"Ma", "La", "N", "H", "N">>)

CrashDoc == Doc(<<"C", "H", "N">>)

PrevDocs == <<NormalDoc, HeadlessDoc, CrashDoc, RedirectDoc>>

LatestDocs == <<NormalDoc>>

\* The documents (indices into PrevDocs, 0 for no file) the previous version
\* may hold at a path, and those the latest version may hold.
PrevChoices(r) ==
    CASE r = <<AHtml>>        -> 0..4
      [] r = <<DHtml>>        -> {0, 1, 3}
      [] r = <<Guide, CHtml>> -> {0, 1, 2}
      [] r = <<BXhtml>>       -> {0, 1}

LatestChoices(r) == IF r = <<DHtml>> THEN {0} ELSE {0, 1}

\* The tree in which the file below `dir` at r holds docs[choice[r]], and no
\* file where the choice is 0.
Tree(dir, choice, docs) ==
    [p \in {Base \o <<dir>> \o r : r \in {q \in RelPaths : choice[q] > 0}}
        |-> docs[choice[RelativeTo(p, Base \o <<dir>>)]]]

DirsOf(files) ==
    {Base, Base \o <<Latest>>, Base \o <<Previous>>}
        \cup UNION {Ancestors(ParentOf(p)) : p \in DOMAIN files}

NoCall == [fn |-> "none"]

(***************************************************************************)
(* The walkers.                                                            *)
(***************************************************************************)
\* canonical_tag_walker's test of a file name
IsCanonicalCandidate(f) == EndsWith(f, DotHtml)

\* redirect_removed_walker's test of a file name
IsRedirectCandidate(f) == EndsWith(f, Html)

\* create_canonical_tag(base, current_docs_path, current_file, version, abs)
StampCall(current_docs_path, current_file, version) ==
    LET gen == generate_canonical_url(Base, current_file, current_docs_path, version)
        canonical_url == IF args.absolute_path
                         THEN AbsoluteUrl(Base, current_file) ELSE gen[2]
    IN  create_canonical_tag(fs[current_file], CanonicalTag(canonical_url))
          @@ [fn |-> "create_canonical_tag", file |-> current_file]

\* One iteration of canonical_tag_walker's loop over the files of the walk.
CanonVisit ==
    /\ pc \in {"canon_latest", "canon_prev"}
    /\ \E f \in WalkNext(todo) :
        LET version == IF pc = "canon_latest" THEN Latest ELSE Previous
            r == StampCall(Base \o <<version>>, f, version)
        IN  /\ todo' = todo \ {f}
            /\ IF IsCanonicalCandidate(FileName(f))
               THEN /\ fs' = [fs EXCEPT ![f] = r.text]
                    /\ loc' = r
                    /\ calls' = calls \cup {[fn |-> r.fn, file |-> f, status |-> r.status]}
                    /\ pc' = IF r.status = "IndexError" THEN "raised" ELSE pc
               ELSE UNCHANGED <<fs, loc, calls, pc>>
    /\ UNCHANGED <<dirs, args, runs, snap>>

\* One iteration of redirect_removed_walker's loop over the files of the walk.
RedirectVisit ==
    /\ pc = "redirect"
    /\ \E f \in WalkNext(todo) :
        LET r == redirect_removed_file(fs, dirs, Base, f, Latest, Previous,
                                       Current, args.absolute_path, args.product)
        IN  /\ todo' = todo \ {f}
            /\ IF IsRedirectCandidate(FileName(f))
               THEN /\ fs' = r.fs
                    /\ dirs' = r.dirs
                    /\ loc' = r
                    /\ calls' = calls \cup {[fn |-> r.fn, file |-> f, status |-> r.status]}
                    /\ pc' = IF r.status = "KeyError" THEN "raised" ELSE pc
               ELSE UNCHANGED <<fs, dirs, loc, calls, pc>>
    /\ UNCHANGED <<args, runs, snap>>

\* main(): a walker has returned, the next one starts.
WalkDone ==
    /\ pc \in {"canon_latest", "canon_prev", "redirect"}
    /\ todo = {}
    /\ pc' = CASE pc = "canon_latest" -> "canon_prev"
               [] pc = "canon_prev"   -> "redirect"
               [] pc = "redirect"     -> "done"
    /\ todo' = IF pc = "redirect" THEN {} ELSE FilesUnder(fs, Base \o <<Previous>>)
    /\ UNCHANGED <<fs, dirs, args, calls, loc, runs, snap>>

\* The script is run again over the tree it has stamped.
Restamp ==
    /\ runs = 1
    /\ pc = "raised" \/ (pc = "canon_latest" /\ todo = {})
    /\ runs' = 2
    /\ snap' = fs
    /\ pc' = "canon_latest"
    /\ todo' = FilesUnder(fs, Base \o <<Latest>>)
    /\ UNCHANGED <<fs, dirs, args, calls, loc>>

(***************************************************************************)
(* The run of main() over a tree with a previous version.                  *)
(***************************************************************************)
Init ==
    /\ \E lc \in [RelPaths -> 0..Len(LatestDocs)] :
       \E pv \in [RelPaths -> 0..Len(PrevDocs)] :
          /\ \A r \in RelPaths : lc[r] \in LatestChoices(r) /\ pv[r] \in PrevChoices(r)
          /\ fs = Tree(Latest, lc, LatestDocs) @@ Tree(Previous, pv, PrevDocs)
    /\ dirs = DirsOf(fs)
    /\ args \in [absolute_path : BOOLEAN, product : {None, Some(<<"W">>)}]
    /\ pc = "canon_latest"
    /\ todo = FilesUnder(fs, Base \o <<Latest>>)
    /\ calls = {}
    /\ loc = NoCall
    /\ runs = 1
    /\ snap = <<>>

Next == CanonVisit \/ WalkDone \/ RedirectVisit

Spec == Init /\ [][Next]_vars

(***************************************************************************)
(* Stamping one document, and stamping it again.                           *)
(***************************************************************************)
StampFile == Base \o <<Latest, AHtml>>

InitStamp ==
    /\ \E doc \in TokDocs(StampTokens, MaxDocTok) : fs = (StampFile :> doc)
    /\ dirs = DirsOf(fs)
    /\ args = [absolute_path |-> TRUE, product |-> None]
    /\ pc = "canon_latest"
    /\ todo = {StampFile}
    /\ calls = {}
    /\ loc = NoCall
    /\ runs = 1
    /\ snap = <<>>

NextStamp == CanonVisit \/ Restamp

SpecStamp == InitStamp /\ [][NextStamp]_vars

(***************************************************************************)
(* Synthesizing the redirect for one previous-version document.            *)
(***************************************************************************)
InitRedirect ==
    /\ \E doc \in TokDocs(RedirTokens, MaxRedirTok) :
       \E r \in {<<AHtml>>, <<Guide, CHtml>>} :
       \E taken \in BOOLEAN :
          fs = (Base \o <<Previous>> \o r :> doc)
                 @@ (IF taken THEN (Base \o <<Latest>> \o r :> NormalDoc) ELSE <<>>)
    /\ dirs = DirsOf(fs)
    /\ args \in [absolute_path : BOOLEAN, product : {None}]
    /\ pc = "redirect"
    /\ todo = FilesUnder(fs, Base \o <<Previous>>)
    /\ calls = {}
    /\ loc = NoCall
    /\ runs = 1
    /\ snap = <<>>

NextRedirect == RedirectVisit

SpecRedirect == InitRedirect /\ [][NextRedirect]_vars

(***************************************************************************)
(* generate_canonical_url as a function of its arguments.                  *)
(***************************************************************************)
Srv == <<"s", "r", "v">>

Manual == <<"m">>

\* The directories, below the version directory, of a file at depth n.
SubDirs(n) == UNION {[1..k -> {Guide, Manual}] : k \in 0..(n - 1)}

InitUrl ==
    /\ loc \in [fn : {"args"},
                base_docs_path : {Base, <<Srv>> \o Base},
                canon_dirname : {Latest, Previous},
                current_dirname : {Latest, Previous},
                rel : {d \o <<f>> : d \in SubDirs(MaxDepth), f \in {AHtml, BXhtml}}]
    /\ fs = <<>>
    /\ dirs = {}
    /\ args = [absolute_path |-> FALSE, product |-> None]
    /\ pc = "call"
    /\ todo = {}
    /\ calls = {}
    /\ runs = 1
    /\ snap = <<>>

GenerateUrl ==
    /\ pc = "call"
    /\ LET canon_dir_path == loc.base_docs_path \o <<loc.canon_dirname>>
           canon_file == canon_dir_path \o loc.rel
           ret == generate_canonical_url(loc.base_docs_path, canon_file,
                                         canon_dir_path, loc.current_dirname)
       IN  loc' = [fn |-> "generate_canonical_url",
                   base_docs_path |-> loc.base_docs_path,
                   canon_file |-> canon_file,
                   current_dirname |-> loc.current_dirname,
                   redirect_file |-> ret[1], url |-> ret[2]]
    /\ pc' = "done"
    /\ UNCHANGED <<fs, dirs, args, todo, calls, runs, snap>>

NextUrl == GenerateUrl

SpecUrl == InitUrl /\ [][NextUrl]_vars

(***************************************************************************)
(* The vocabulary of the properties: what a document contains, read off    *)
(* its text independently of the operators that model the script.          *)
(***************************************************************************)
IsStampCall == loc.fn = "create_canonical_tag"

IsRedirectCall == loc.fn = "redirect_removed_file"

\* The text holds a </head> marker.
HasHeadMarker(text) ==
    \E i \in 1..(Len(text) - 1) : text[i].k = "H" /\ text[i + 1].k = ">"

\* The text holds a <meta ... http-equiv="refresh" ...> tag.
HasMetaRefreshTag(text) ==
    \E i \in 1..Len(text) : \E j \in (i + 1)..Len(text) :
        /\ text[i].k = "M"
        /\ text[j].k = "r"
        /\ \A m \in (i + 1)..(j - 1) : text[m].k \notin {">", "\n"}

\* The number of canonical link tags in the text.
CanonTagCount(text) == Cardinality({i \in 1..Len(text) : text[i].k = "L"})

\* The text without its canonical link tags and its white space: position i
\* on, `inside` telling whether i lies in a canonical link tag.
RECURSIVE OtherContentFrom(_, _, _)
OtherContentFrom(text, i, inside) ==
    IF i > Len(text) THEN <<>>
    ELSE IF inside THEN OtherContentFrom(text, i + 1, text[i].k # ">")
    ELSE IF text[i].k = "L" THEN OtherContentFrom(text, i + 1, TRUE)
    ELSE IF IsWs(text[i]) THEN OtherContentFrom(text, i + 1, FALSE)
    ELSE <<text[i]>> \o OtherContentFrom(text, i + 1, FALSE)

OtherContent(text) == OtherContentFrom(text, 1, FALSE)

\* The value of attribute `name` of the first tag that opens with chunk `open`
\* and satisfies `refresh => it carries http-equiv="refresh"`; None if there is
\* no such tag or it lacks the attribute.
FirstTagAttr(text, open, refresh, name) ==
    LET end(i) == IF \E j \in (i + 1)..Len(text) : text[j].k = ">"
                  THEN CHOOSE j \in (i + 1)..Len(text) :
                           /\ text[j].k = ">"
                           /\ \A m \in (i + 1)..(j - 1) : text[m].k # ">"
                  ELSE Len(text) + 1
        tags == {i \in 1..Len(text) :
                    /\ text[i].k = open
                    /\ refresh => \E j \in (i + 1)..(end(i) - 1) : text[j].k = "r"}
        first == CHOOSE i \in tags : \A i2 \in tags : i <= i2
        vals == {j \in (first + 1)..(end(first) - 1) : text[j].k = name}
    IN  IF tags = {} \/ vals = {} THEN None
        ELSE Some(text[CHOOSE j \in vals : \A j2 \in vals : j <= j2].u)

\* The content attribute of the document's meta-refresh tag.
RefreshOf(text) == FirstTagAttr(text, "M", TRUE, "c")

\* The href of the document's canonical link.
CanonHrefOf(text) == FirstTagAttr(text, "L", FALSE, "h")

\* A path with a URL's segments applied to it, ".." ascending one directory.
RECURSIVE Resolve(_, _)
Resolve(dir, segments) ==
    IF segments = <<>> THEN dir
    ELSE IF Head(segments) = DotDot
         THEN Resolve(IF dir = <<>> THEN <<>> ELSE ParentOf(dir), Tail(segments))
         ELSE Resolve(Append(dir, Head(segments)), Tail(segments))

(***************************************************************************)
(* The properties.                                                         *)
(***************************************************************************)
\* C1: stamping a document a second time leaves the file with the content the
\* first stamping gave it.
C1_StampingIdempotent ==
    (runs = 2 /\ todo = {}) => fs = snap

\* C2: after create_canonical_tag on a document that is no redirect and has a
\* </head> marker, the document holds exactly one canonical link tag, the
\* freshly rendered one, and all its other content (white space aside) is the
\* content it had before.
C2_OneTagContentKept ==
    (IsStampCall /\ HasHeadMarker(loc.before) /\ ~HasMetaRefreshTag(loc.before))
        => /\ CanonTagCount(fs[loc.file]) = 1
           /\ Contains(fs[loc.file], loc.tag)
           /\ OtherContent(fs[loc.file]) = OtherContent(loc.before)

\* C7: a document that holds a meta-refresh tag, wherever it stands, is
\* returned without a write: the call ends at the redirect test and the file
\* holds what it held.
C7_RedirectNeverStamped ==
    (IsStampCall /\ HasMetaRefreshTag(loc.before))
        => /\ loc.status = "redirect"
           /\ fs[loc.file] = loc.before
           /\ pc # "raised"

\* C7 witness: a call on a document whose meta-refresh tag comes after its
\* </head> marker and that carries a canonical link tag.
C7_Witness ==
    /\ IsStampCall
    /\ HasMetaRefreshTag(loc.before)
    /\ CanonTagCount(loc.before) >= 1
    /\ \E i \in 1..Len(loc.before) : \E j \in (i + 1)..Len(loc.before) :
          loc.before[i].k = "H" /\ loc.before[j].k = "M"
    /\ loc.status = "redirect"

\* C9: when the first </head> marker shares its line with other content, the
\* recorded column is where </head> begins in that line once its canonical link
\* tags are stripped, and the written line is the stripped line with the new tag
\* and one blank put in right before </head>.
C9_ColumnAfterStrip ==
    (IsStampCall /\ loc.col # None)
        => LET stripped == SubCanon(ReadLines(loc.before)[Get(loc.scan_line) + 1]).out
               at == HeadSearch(stripped)
           IN  /\ loc.col = at
               /\ loc.status = "written"
                    => loc.out_line = SubSeq(stripped, 1, Get(at)) \o loc.tag
                                        \o <<Ch(" ")>>
                                        \o SubSeq(stripped, Get(at) + 1, Len(stripped))

\* C10: once the flagged lines are deleted, the recorded head-closing index is
\* an index of the remaining lines and designates the line that held the first
\* </head> marker; no flagged line is that line, and the insertion raises no
\* index error.
C10_HeadIndexValid ==
    (IsStampCall /\ loc.status \in {"written", "IndexError"})
        => /\ \A k \in 1..Len(loc.flagged) : loc.flagged[k] # Get(loc.scan_line)
           /\ loc.status # "IndexError"
           /\ Get(loc.line) < Len(loc.deleted)
           /\ loc.deleted[Get(loc.line) + 1] = loc.scanned[Get(loc.scan_line) + 1]

\* C5: a document without a </head> marker is left as it was by a call that
\* returns normally, and the walk that met it processes every other .html file
\* of its tree.
C5_HeadlessSkippedWalkGoesOn ==
    /\ (IsStampCall /\ ~HasHeadMarker(loc.before))
          => /\ loc.status \in {"nohead", "redirect"}
             /\ fs[loc.file] = loc.before
             /\ pc # "raised"
    /\ \A c \in calls :
          (/\ c.fn = "create_canonical_tag"
           /\ c.status = "nohead"
           /\ pc # (IF c.file[Len(Base) + 1] = Latest THEN "canon_latest" ELSE "canon_prev"))
          => \A f \in FilesUnder(fs, SubSeq(c.file, 1, Len(Base) + 1)) :
                EndsWith(FileName(f), DotHtml)
                    => \E c2 \in calls : c2.fn = "create_canonical_tag" /\ c2.file = f

\* C8: every per-document call of the two walkers is on a file whose name
\* ends in ".html".
C8_OnlyDotHtml ==
    \A c \in calls : EndsWith(FileName(c.file), DotHtml)

\* C4: a call of redirect_removed_file whose destination, base/current_dirname/
\* <path of the previous file below its version directory>, existed changes no
\* file and no directory and raises nothing; a file is written only at a
\* destination that did not exist, and nothing else changes.
C4_RedirectWriteOnce ==
    IsRedirectCall
        => LET dest == Base \o <<Latest>> \o RelativeTo(loc.file, Base \o <<Previous>>)
               was  == dest \in DOMAIN loc.fs_before \/ dest \in loc.dirs_before
           IN  /\ was => (fs = loc.fs_before /\ dirs = loc.dirs_before /\ pc # "raised")
               /\ fs # loc.fs_before
                    => /\ ~was
                       /\ DOMAIN fs = DOMAIN loc.fs_before \cup {dest}
                       /\ \A q \in DOMAIN loc.fs_before : fs[q] = loc.fs_before[q]

\* C4 witness: a call for a file in a subdirectory whose destination existed.
C4_Witness ==
    /\ IsRedirectCall
    /\ Len(loc.file) > Len(Base) + 2
    /\ loc.redirect_file \in DOMAIN loc.fs_before
    /\ loc.status = "skipped"

\* The cross-version URL of a previous-version document.
CrossVersionUrl(file) ==
    IF args.absolute_path THEN AbsoluteUrl(Base, file)
    ELSE generate_canonical_url(Base, file, Base \o <<Previous>>, Latest)[2]

\* The href a redirect for the previous-version document `prev` inherits: that
\* of its canonical link when it has a meta-refresh tag whose content attribute
\* holds that href; None otherwise.  The tags are the first of their kind in
\* the document, the ones BeautifulSoup's find returns.
InheritedHref(prev) ==
    IF /\ HasMetaRefreshTag(prev)
       /\ RefreshOf(prev) # None
       /\ CanonHrefOf(prev) # None
       /\ Contains(Get(RefreshOf(prev)), Get(CanonHrefOf(prev)))
    THEN CanonHrefOf(prev) ELSE None

\* The values of attribute `name` over all the tags that open with chunk `open`
\* and satisfy `refresh => the tag carries http-equiv="refresh"`.
TagAttrValues(text, open, refresh, name) ==
    LET end(i) == IF \E j \in (i + 1)..Len(text) : text[j].k = ">"
                  THEN CHOOSE j \in (i + 1)..Len(text) :
                           /\ text[j].k = ">"
                           /\ \A m \in (i + 1)..(j - 1) : text[m].k # ">"
                  ELSE Len(text) + 1
        tags == {i \in 1..Len(text) :
                    /\ text[i].k = open
                    /\ refresh => \E j \in (i + 1)..(end(i) - 1) : text[j].k = "r"}
    IN  {text[j].u : j \in {m \in 1..Len(text) :
                               /\ text[m].k = name
                               /\ \E i \in tags : i < m /\ m < end(i)}}

\* The hrefs of the canonical links of `prev` that occur in the content
\* attribute of a meta-refresh tag of `prev`.
ReferencedHrefs(prev) ==
    {h \in TagAttrValues(prev, "L", FALSE, "h") :
        \E c \in TagAttrValues(prev, "M", TRUE, "c") : Contains(c, h)}

\* C3 as stated, for a document with any number of tags: the redirect document
\* targets the href of a canonical link of the previous document that occurs
\* in the content attribute of a meta-refresh tag of that document, whenever
\* the document has such a link, and the cross-version URL otherwise.
C3_AnyReferencedLink ==
    (IsRedirectCall /\ loc.status = "written")
        => LET prev == loc.fs_before[loc.file]
               made == fs[loc.redirect_file]
               targets == IF ReferencedHrefs(prev) # {} THEN ReferencedHrefs(prev)
                          ELSE {CrossVersionUrl(loc.file)}
           IN  \E target \in targets :
                   /\ RefreshOf(made) = Some(RefreshContent(target))
                   /\ CanonHrefOf(made) = Some(target)

\* C3, for the first tags: the redirect document redirect_removed_file
\* generates targets, in its meta-refresh url and in its canonical href alike,
\* the href of the previous
\* document's first canonical link when the first meta-refresh tag of that
\* document has a content attribute that holds the href, and the cross-version
\* URL of the previous document in every other case.
C3_RedirectTarget ==
    (IsRedirectCall /\ loc.status = "written")
        => LET prev   == loc.fs_before[loc.file]
               made   == fs[loc.redirect_file]
               target == IF InheritedHref(prev) # None THEN Get(InheritedHref(prev))
                         ELSE CrossVersionUrl(loc.file)
           IN  /\ RefreshOf(made) = Some(RefreshContent(target))
               /\ CanonHrefOf(made) = Some(target)

\* C3 witness: a redirect generated from a previous document that has two
\* canonical links and a meta-refresh tag naming the first one's href.
C3_Witness ==
    /\ IsRedirectCall
    /\ loc.status = "written"
    /\ CanonTagCount(loc.fs_before[loc.file]) = 2
    /\ InheritedHref(loc.fs_before[loc.file]) # None
    /\ CanonHrefOf(fs[loc.redirect_file]) # Some(loc.computed)

\* C6: the URL generate_canonical_url returns, resolved against the directory
\* of the sibling file, is the path of the target file; it carries one ".." for
\* each directory between the sibling file and the base.
C6_UrlRoundTrip ==
    loc.fn = "generate_canonical_url"
        => /\ Resolve(ParentOf(loc.redirect_file), PurePath(loc.url)) = loc.canon_file
           /\ Cardinality({i \in 1..Len(PurePath(loc.url)) : PurePath(loc.url)[i] = DotDot})
                = Len(RelativeTo(loc.redirect_file, loc.base_docs_path)) - 1

=============================================================================
